---- MODULE Spec2Model ----
(***************************************************************************)
(* Nashville dispatch monitor: the poll cycle of dispatch-monitor.js       *)
(* (fetch, diff against .dispatch-state.json, save, persist to the         *)
(* incidents table through db.js) as a state machine.                      *)
(*                                                                         *)
(* One run of `node dispatch-monitor.js` is one poll cycle and one action; *)
(* cron starts the next run after the previous one has exited.  The state  *)
(* that survives between runs is the state file and the SQLite database;   *)
(* the other variables hold what the last run computed.                    *)
(*                                                                         *)
(* Modelling decisions:                                                    *)
(*  - db.js is loadable (`db` at dispatch-monitor.js:19-24 is defined).    *)
(*  - Feed records honour the data model: ObjectId, CallReceivedTime and   *)
(*    the type name are present; ObjectId is an integer, unique within one *)
(*    poll; features arrive in ObjectId order.  The copied feed fields are *)
(*    represented by Location.                                             *)
(*  - Date.now() reads the clock `now`, which never goes back.  A run is   *)
(*    short against the clock: its reads return one value (the "time of    *)
(*    the cycle"); the clock may advance between runs.                     *)
(*  - A statement's run() can fail for reasons outside the program (disk,  *)
(*    lock, a value that cannot be bound): the environment chooses the     *)
(*    iteration in which db.recordIncident throws, if any.                 *)
(*  - A row of the incidents table is its columns without the              *)
(*    autoincrement id, which no statement reads; the table is the set of  *)
(*    its rows.                                                            *)
(*  - dispatch.db may already hold rows when the process starts (db.js     *)
(*    creates the table IF NOT EXISTS and backfills existing rows).        *)
(*                                                                         *)
(* Further specifications, each over the same variables with the others    *)
(* at rest:                                                                *)
(*  - RenderSpec: the full status renderer of main on polls with lines of  *)
(*    any length;                                                          *)
(*  - BotSpec: the Discord bot (index.js), whose invocations of            *)
(*    updateDispatch interleave at their awaits;                           *)
(*  - KeptSpec: the bot in a thread where no status message is deleted;    *)
(*  - AggSpec: the aggregate queries of db.js on a table of incidents;     *)
(*  - RecoverSpec: poll cycles that start on what an earlier cycle left    *)
(*    on disk;                                                             *)
(*  - StatusSpec: buildStatusMessage of the bot on polls around its limit; *)
(*  - TypeSpec: db.getTypeStats (stats.js);                                *)
(*  - ReportSpec: generateReport (report.js) and the reports archive;      *)
(*  - MigrateSpec: the migration and backfill of db.js on a database of    *)
(*    an earlier revision, and the street and hour recordIncident writes.  *)
(***************************************************************************)
EXTENDS Integers, Sequences, FiniteSets, TLC

\* ------------------------------------------------------------------ bounds
MaxObjectId == 2
MaxCycles == 2
MaxTime == 1
\* Records of any length in a poll handed to the renderer on its own.
MaxLines == 2
\* Invocations of updateDispatch the bot starts.
MaxTicks == 3
\* Records appended to the block of a poll handed to buildStatusMessage.
MaxExtra == 3
\* Rows of the incidents table the aggregates are read from.
MaxRows == 2

\* SQL NULL / JS null in an integer column or field.
NULL == -1
\* JS undefined (a property lookup that finds nothing).
Undefined == [undefined |-> TRUE]
\* No .dispatch-state.json on disk.
NoFile == [exists |-> FALSE]
\* No fetch settled yet in this process.
NoData == [kind |-> "none"]
\* What the catch around the database block (line 125) logged: nothing, the
\* error of a failed write, or the RangeError of a statement that lacks a
\* named parameter.
NoError == "none"
WriteFailed == "write failed"
MissingParameter == "Missing named parameter"

ObjectIds == 1..MaxObjectId

\* The feed records the model draws from.  Every id has one record; id 1 is
\* the id whose record varies between polls: its text is edited upstream
\* while the call is active (the same occurrence), and the id is recycled for
\* a later call (another occurrence, with another CallReceivedTime).
Incident ==
    {[ObjectId |-> id, CallReceivedTime |-> 100, Location |-> "2600 8TH AVE S"]
        : id \in ObjectIds}
    \cup {[ObjectId |-> 1, CallReceivedTime |-> 100,
           Location |-> "CHARLOTTE AVE / 28TH AVE N"],
          [ObjectId |-> 1, CallReceivedTime |-> 200, Location |-> "2600 8TH AVE S"]}

CallTimes == {i.CallReceivedTime : i \in Incident}

Range(s) == {s[i] : i \in DOMAIN s}

\* The feature lists the feed can return: ids unique within one poll, in
\* ObjectId order (the service's order for a query without orderByFields).
FeatureLists ==
    {s \in UNION {[1..n -> Incident] : n \in 0..MaxObjectId} :
        \A i, j \in DOMAIN s : i < j => s[i].ObjectId < s[j].ObjectId}

\* What `await fetchDispatch()` followed by line 94 can produce.
FetchOutcomes ==
    {[kind |-> "error"], [kind |-> "badjson"], [kind |-> "nullbody"], [kind |-> "nofeatures"]}
    \cup {[kind |-> "ok", features |-> s] : s \in FeatureLists}

VARIABLES
    now,              \* the wall clock read by Date.now()
    stateFile,        \* .dispatch-state.json: NoFile or [incidents, lastUpdate]
    store,            \* rows of the incidents table
    \* What the last run of main() computed (initial values before any run):
    data,             \* what fetchDispatch() settled with
    state,            \* what loadState() returned
    incidents,        \* incidents (feed order)
    newIncidents,
    clearedIds,
    clearedIncidents,
    idx,              \* the iteration of the loop at line 118 that threw
                      \* (Len(incidents) + 1 when none did)
    dbError,          \* message printed by console.error('DB error:', ...)
    exitCode,         \* exit status (NULL before any run)
    cycles,           \* number of runs so far
    \* How cron starts the process, and what it printed:
    jsonOutput,       \* args.includes('--json')
    OUTPUT_MODE,      \* process.env.OUTPUT_MODE || 'always'
    stdout,           \* what the last run wrote with console.log
    \* The Discord bot (index.js), a process of its own:
    lastIncidentHash, \* '' until a poll has been hashed
    statusMessageId,  \* NULL or the id of the status message
    dispatchThread,   \* NULL or the thread
    calls,            \* the invocations of updateDispatch, in starting order
    threads,          \* Discord: the active threads named 'Active Dispatch'
    messages,         \* Discord: message id -> text, of the messages sent
    sends,            \* Discord: number of messages ever sent
    \* A process that loads db.js to read the aggregates:
    hostOffset,       \* the host's local time zone, as hours east of UTC
    dailyStats,       \* what db.getDailyStats returned
    violentStreets,   \* what db.getViolentStreets returned
    \* A process that runs stats.js or report.js:
    dbLoaded,         \* whether require('./db') has run (schema, backfill)
    typeStats,        \* what db.getTypeStats returned
    report,           \* what the last generateReport returned
    reports           \* rows of the reports table

pollVars == <<now, stateFile, store, data, state, incidents, newIncidents, clearedIds,
              clearedIncidents, idx, dbError, exitCode, cycles,
              jsonOutput, OUTPUT_MODE, stdout>>

botVars == <<lastIncidentHash, statusMessageId, dispatchThread, calls, threads,
             messages, sends>>

aggVars == <<hostOffset, dailyStats, violentStreets>>

statsVars == <<dbLoaded, typeStats, report, reports>>

vars == <<pollVars, botVars, aggVars, statsVars>>

\* Date.now(): the values a run can read, the clock having stood at `now`.
ClockReads == {t \in {now, now + 1} : t <= MaxTime}

\* ------------------------------------------------------------ state file
\* Object property keys are strings.
KeyOf(id) == ToString(id)
\* Number(key)
Number(k) == CHOOSE n \in ObjectIds : ToString(n) = k

loadState ==
    IF stateFile # NoFile THEN stateFile
    ELSE [incidents |-> <<>>, lastUpdate |-> NULL]

\* Mutant: the records are assigned onto the loaded state's incidents.
AssignAll_OntoLoaded(obj, incs) ==
    LET loaded == loadState.incidents
        Assigned(k) == {i \in DOMAIN incs : KeyOf(incs[i].ObjectId) = k}
    IN [k \in DOMAIN loaded \cup DOMAIN obj
                \cup {KeyOf(incs[i].ObjectId) : i \in DOMAIN incs} |->
           IF Assigned(k) # {}
           THEN incs[CHOOSE i \in Assigned(k) : \A j \in Assigned(k) : j <= i]
           ELSE IF k \in DOMAIN obj THEN obj[k] ELSE loaded[k]]

\* incidents.forEach(i => { newState.incidents[i.ObjectId] = i; })
RECURSIVE AssignAll(_, _)
AssignAll(obj, incs) ==
    IF incs = <<>> THEN obj
    ELSE LET i == Head(incs)
             k == KeyOf(i.ObjectId)
         IN AssignAll([x \in DOMAIN obj \cup {k} |-> IF x = k THEN i ELSE obj[x]],
                      Tail(incs))

\* ---------------------------------------------------------------- differ
currentIdsOf(incs) == {incs[i].ObjectId : i \in DOMAIN incs}

previousIdsOf(st) == {Number(k) : k \in DOMAIN st.incidents}

\* [...set] of integer-like keys: ascending order.
RECURSIVE Ascending(_)
Ascending(S) ==
    IF S = {} THEN <<>>
    ELSE LET m == CHOOSE x \in S : \A y \in S : x <= y
         IN <<m>> \o Ascending(S \ {m})

\* Mutant: the filter tests the current id set instead of the previous one.
diffNew_AgainstCurrent(incs, st) ==
    SelectSeq(incs, LAMBDA i : i.ObjectId \notin currentIdsOf(incs))

diffNew(incs, st) ==
    SelectSeq(incs, LAMBDA i : i.ObjectId \notin previousIdsOf(st))

\* Mutant: every previous id is reported, the filter is not applied.
diffClearedIds_Unfiltered(incs, st) == Ascending(previousIdsOf(st))

diffClearedIds(incs, st) ==
    SelectSeq(Ascending(previousIdsOf(st)), LAMBDA id : id \notin currentIdsOf(incs))

Lookup(obj, id) == IF KeyOf(id) \in DOMAIN obj THEN obj[KeyOf(id)] ELSE Undefined

diffCleared(incs, st) ==
    LET ids == diffClearedIds(incs, st)
    IN SelectSeq([n \in DOMAIN ids |-> Lookup(st.incidents, ids[n])],
                 LAMBDA x : x # Undefined)

\* ----------------------------------------------------------------- store
\* The named parameters a statement needs, and whether an object binds them
\* (run() throws RangeError "Missing named parameter" when one is absent).
markClearedParams == {"objectId", "callReceived", "now"}

Binds(needed, params) == needed \subseteq DOMAIN params

\* UNIQUE(object_id, call_received)
HasKey(st, objectId, callReceived) ==
    \E r \in st : r.object_id = objectId /\ r.call_received = callReceived

\* Mutant: a plain INSERT into a table without the UNIQUE constraint.
insertIncident_NoUnique(st, p) ==
    st \cup {[object_id     |-> p.objectId,
              location      |-> p.location,
              call_received |-> p.callReceived,
              first_seen    |-> p.now,
              last_seen     |-> p.now,
              cleared       |-> FALSE,
              cleared_at    |-> NULL]}

\* Mutant: INSERT OR REPLACE, which deletes the row that holds the key.
insertIncident_OrReplace(st, p) ==
    {r \in st : ~(r.object_id = p.objectId /\ r.call_received = p.callReceived)}
    \cup {[object_id     |-> p.objectId,
           location      |-> p.location,
           call_received |-> p.callReceived,
           first_seen    |-> p.now,
           last_seen     |-> p.now,
           cleared       |-> FALSE,
           cleared_at    |-> NULL]}

\* INSERT OR IGNORE INTO incidents (...) VALUES (..., @now, @now, ...)
insertIncident(st, p) ==
    IF HasKey(st, p.objectId, p.callReceived) THEN st
    ELSE st \cup {[object_id     |-> p.objectId,
                   location      |-> p.location,
                   call_received |-> p.callReceived,
                   first_seen    |-> p.now,
                   last_seen     |-> p.now,
                   cleared       |-> FALSE,
                   cleared_at    |-> NULL]}

\* Mutant: the update is not run.
updateLastSeen_Skipped(st, p) == st

\* Mutant: the WHERE clause lacks `AND cleared = 0`.
updateLastSeen_IgnoresCleared(st, p) ==
    {IF r.object_id = p.objectId /\ r.call_received = p.callReceived
     THEN [r EXCEPT !.last_seen = p.now] ELSE r : r \in st}

\* Mutant: the SET clause names first_seen.
updateLastSeen_WritesFirstSeen(st, p) ==
    {IF r.object_id = p.objectId /\ r.call_received = p.callReceived /\ ~r.cleared
     THEN [r EXCEPT !.first_seen = p.now] ELSE r : r \in st}

\* UPDATE incidents SET last_seen = @now
\*   WHERE object_id = @objectId AND call_received = @callReceived AND cleared = 0
updateLastSeen(st, p) ==
    {IF r.object_id = p.objectId /\ r.call_received = p.callReceived /\ ~r.cleared
     THEN [r EXCEPT !.last_seen = p.now] ELSE r : r \in st}

\* markCleared.run(params): the prepared statement of db.js:104-106.
\* UPDATE incidents SET cleared = 1, cleared_at = @now
\*   WHERE object_id = @objectId AND call_received = @callReceived AND cleared = 0
markClearedRun(st, p) ==
    IF ~Binds(markClearedParams, p) THEN [store |-> st, threw |-> TRUE]
    ELSE [store |-> {IF r.object_id = p.objectId /\ r.call_received = p.callReceived
                        /\ ~r.cleared
                     THEN [r EXCEPT !.cleared = TRUE, !.cleared_at = p.now] ELSE r
                     : r \in st},
          threw |-> FALSE]

\* db.recordIncident(incident), with Date.now() = t.
recordIncident(st, incident, t) ==
    LET params == [objectId     |-> incident.ObjectId,
                   location     |-> incident.Location,
                   callReceived |-> incident.CallReceivedTime,
                   now          |-> t]
    IN updateLastSeen(insertIncident(st, params),
                      [objectId     |-> incident.ObjectId,
                       callReceived |-> incident.CallReceivedTime,
                       now          |-> t])

\* The object db.markCleared hands to the statement for one id.
markClearedArgs(id, t) == [objectId |-> id, now |-> t]

\* db.markCleared(objectIds), with Date.now() = t: the loop stops at the
\* first run() that throws.
RECURSIVE markCleared(_, _, _)
markCleared(st, objectIds, t) ==
    IF objectIds = <<>> THEN [store |-> st, threw |-> FALSE]
    ELSE LET r == markClearedRun(st, markClearedArgs(Head(objectIds), t))
         IN IF r.threw THEN r ELSE markCleared(r.store, Tail(objectIds), t)

\* db.getTotal()
getTotal(st) == Cardinality(st)

\* The row of an occurrence, when the table holds exactly one.
RowsOf(st, objectId, callReceived) ==
    {r \in st : r.object_id = objectId /\ r.call_received = callReceived}

\* dispatch.db as the process can find it when it opens the file: empty, or
\* with rows written before, by this or an earlier revision of db.js (the
\* table is created IF NOT EXISTS; lines 53-76 migrate and backfill the rows
\* that exist).  Here: one occurrence, seen at time 0 and cleared at time 0.
\* The current db.markCleared clears nothing (its statement never binds), so
\* such rows are the only cleared rows there are.
ExistingDatabases ==
    {{},
     {[object_id |-> 1, location |-> "2600 8TH AVE S", call_received |-> 100,
       first_seen |-> 0, last_seen |-> 0, cleared |-> TRUE, cleared_at |-> 0]}}

\* -------------------------------------------------------------- renderer
\* Text is measured as String.prototype.length measures it, in UTF-16 code
\* units; a piece of text is represented by its length.
DISCORD_LIMIT == 2000
\* "Reserve space for '...and X more' line (~30 chars)"
MarkerReserve == 30
\* `# <car> Nashville Active Dispatch\n**` + ` active incident` + `**\n\n`
HeaderFixedLength == 53
\* `\n---\n_Last polled: ` + ` CT_\n_Updates every 2 minutes | Data: ..._`
FooterFixedLength == 84
\* `\n_...and ` + ` more_`
MarkerFixedLength == 15
\* '_No active incidents right now_ <check mark>'
NoIncidentsLength == 33
\* formatIncidentShort: emoji + ` **` + `** - ` + ` @ ` + `hh:mm AM`
LineFixedLength == 21
\* toLocaleString('en-US', {month: 'short', day: 'numeric', year: 'numeric',
\* hour: '2-digit', minute: '2-digit', hour12: true}) without the day's digits:
\* `Nov ` + `, 2026, ` + `11:12 AM`
TimestampFixedLength == 20

\* Nothing written to stdout.
NoOutput == [kind |-> "none"]
\* No '...and N more' element in the output array (a pushed marker has
\* N >= 1).
NoMarker == 0

\* The number of characters of ${n}.
DigitCount(n) == Len(ToString(n))

\* The clock counts abstract instants: an even instant falls on a day of the
\* month written with one digit, an odd instant on one written with two, so
\* that both lengths of the rendered date occur.
timestampLength(t) == TimestampFixedLength + 1 + (t % 2)

\* formatIncidentShort(inc).length; Location carries the free text of the
\* line (type name, location, city).
formatIncidentShort(inc) == LineFixedLength + Len(inc.Location)

\* incidents.sort((a, b) => b.CallReceivedTime - a.CallReceivedTime): a
\* stable sort, newest first.
RECURSIVE InsertNewestFirst(_, _)
InsertNewestFirst(sorted, inc) ==
    IF sorted = <<>> THEN <<inc>>
    ELSE IF Head(sorted).CallReceivedTime >= inc.CallReceivedTime
         THEN <<Head(sorted)>> \o InsertNewestFirst(Tail(sorted), inc)
         ELSE <<inc>> \o sorted

\* Mutant: the records stay in the feed's order.
sortNewestFirst_FeedOrder(incs) == incs

RECURSIVE sortNewestFirst(_)
sortNewestFirst(incs) ==
    IF incs = <<>> THEN <<>>
    ELSE InsertNewestFirst(sortNewestFirst(SubSeq(incs, 1, Len(incs) - 1)),
                           incs[Len(incs)])

\* Mutant: the first line is shown whatever its length.
RECURSIVE fill_FirstLineAlwaysShown(_, _, _)
fill_FirstLineAlwaysShown(lines, n, charCount) ==
    IF n > Len(lines) THEN n - 1
    ELSE IF n = 1 \/ charCount + (lines[n] + 1) + MarkerReserve < DISCORD_LIMIT
         THEN fill_FirstLineAlwaysShown(lines, n + 1, charCount + (lines[n] + 1))
         ELSE n - 1

\* The loop of lines 162-173 from its n-th iteration on: the value of `shown`
\* when the loop ends.
RECURSIVE fill(_, _, _)
fill(lines, n, charCount) ==
    IF n > Len(lines) THEN n - 1
    ELSE IF charCount + (lines[n] + 1) + MarkerReserve < DISCORD_LIMIT
         THEN fill(lines, n + 1, charCount + (lines[n] + 1))
         ELSE n - 1

\* Mutant: the marker is pushed only when more than one line was left out.
moreMarker_SkipsSingle(total, shown) ==
    IF shown + 1 < total THEN total - shown ELSE NoMarker

\* Lines 175-177: the N of `_...and N more_`, when the marker is pushed.
moreMarker(total, shown) ==
    IF shown < total THEN total - shown ELSE NoMarker

\* (parts.join('\n')).length
RECURSIVE SumOf(_)
SumOf(lengths) == IF lengths = <<>> THEN 0 ELSE Head(lengths) + SumOf(Tail(lengths))

JoinLength(parts) == IF parts = <<>> THEN 0 ELSE SumOf(parts) + (Len(parts) - 1)

\* Lines 146-180: the full status text, printed at time t.
fullStatus(incs, t) ==
    LET sorted == sortNewestFirst(incs)
        total  == Len(sorted)
        header == HeaderFixedLength + DigitCount(total) + (IF total # 1 THEN 1 ELSE 0)
        footer == FooterFixedLength + timestampLength(t)
        lines  == [i \in 1..total |-> formatIncidentShort(sorted[i])]
        shown  == IF total = 0 THEN 0 ELSE fill(lines, 1, header + footer)
        marker == IF total = 0 THEN NoMarker ELSE moreMarker(total, shown)
        output == IF total = 0 THEN <<NoIncidentsLength>>
                  ELSE SubSeq(lines, 1, shown)
                       \o (IF marker = NoMarker THEN <<>>
                           ELSE <<MarkerFixedLength + DigitCount(marker)>>)
    IN [kind   |-> "status",
        total  |-> total,
        kept   |-> [i \in 1..shown |-> sorted[i].ObjectId],
        marker |-> marker,
        length |-> header + JoinLength(output) + footer]

\* Lines 130-137: --json.
jsonStatus(incs, newI, clearedI) ==
    [kind |-> "json", total |-> Len(incs), new |-> newI, cleared |-> clearedI,
     all |-> incs]

\* Lines 182-206: changes-only mode.
changesOnly(incs, newI, clearedI) ==
    IF Len(newI) = 0 /\ Len(clearedI) = 0 THEN [kind |-> "NO_CHANGES"]
    ELSE [kind |-> "changes", new |-> newI, cleared |-> clearedI, active |-> Len(incs)]

\* Lines 130-207: what main prints.
consoleLog(st, incs, newI, clearedI, t) ==
    IF jsonOutput THEN jsonStatus(incs, newI, clearedI)
    ELSE IF OUTPUT_MODE = "always" \/ st.lastUpdate = NULL THEN fullStatus(incs, t)
    ELSE changesOnly(incs, newI, clearedI)

\* ------------------------------------------------- the bot before it polls
\* No status text built.
NoMessage == [kind |-> "none"]

\* An invocation of updateDispatch that has not been started.  pc is the
\* await the invocation stands at; incidents, currentHash and message are its
\* locals; fetchId is the id it asked Discord to fetch; log is the last line
\* it wrote to the console.
IdleCall == [pc |-> "idle", incidents |-> <<>>, currentHash |-> "",
             message |-> NoMessage, fetchId |-> NULL, log |-> ""]

\* index.js lines 12-15, and a channel without thread or message.
BotIdle ==
    /\ lastIncidentHash = ""
    /\ statusMessageId = NULL
    /\ dispatchThread = NULL
    /\ calls = [i \in 1..MaxTicks |-> IdleCall]
    /\ threads = {}
    /\ messages = <<>>
    /\ sends = 0

\* No aggregate query has returned.
NoResult == [kind |-> "none"]

AggIdle ==
    /\ hostOffset = 0
    /\ dailyStats = NoResult
    /\ violentStreets = NoResult

\* No report generated.
NoReport == [kind |-> "none"]

\* db.js is loaded; stats.js and report.js have not run; no report archived.
StatsIdle ==
    /\ dbLoaded = TRUE
    /\ typeStats = NoResult
    /\ report = NoReport
    /\ reports = {}

\* ------------------------------------------------------------ poll cycle
\* The command line and environment cron was set up with: --json makes
\* OUTPUT_MODE irrelevant (line 137 returns before it is read).
Configurations ==
    {[jsonOutput |-> TRUE,  OUTPUT_MODE |-> "always"],
     [jsonOutput |-> FALSE, OUTPUT_MODE |-> "always"],
     [jsonOutput |-> FALSE, OUTPUT_MODE |-> "changes"]}

Init ==
    /\ now = 0
    /\ stateFile = NoFile
    /\ store \in ExistingDatabases
    /\ data = NoData
    /\ state = [incidents |-> <<>>, lastUpdate |-> NULL]
    /\ incidents = <<>>
    /\ newIncidents = <<>>
    /\ clearedIds = <<>>
    /\ clearedIncidents = <<>>
    /\ idx = 1
    /\ dbError = NoError
    /\ exitCode = NULL
    /\ cycles = 0
    /\ \E c \in Configurations :
          jsonOutput = c.jsonOutput /\ OUTPUT_MODE = c.OUTPUT_MODE
    /\ stdout = NoOutput
    /\ BotIdle
    /\ AggIdle
    /\ StatsIdle

\* Mutant: fetchDispatch resolves with an empty object when JSON.parse fails.
FetchThrows_BadJsonResolves(outcome) == outcome.kind \in {"error", "nullbody"}

\* Whether lines 93-94 throw: the request fails, JSON.parse rejects the body,
\* or the body is the JSON value null (data.features throws).
FetchThrows(outcome) == outcome.kind \in {"error", "badjson", "nullbody"}

\* data.features?.map(f => f.attributes) || []
incidentsOf(outcome) == IF outcome.kind = "ok" THEN outcome.features ELSE <<>>

\* The catch of main (lines 209-212) after a throw in the fetch:
\* console.error, process.exit(1).  Nothing after line 93 has run.
OnError(outcome) ==
    /\ data' = outcome
    /\ exitCode' = 1
    /\ state' = [incidents |-> <<>>, lastUpdate |-> NULL]
    /\ incidents' = <<>>
    /\ newIncidents' = <<>>
    /\ clearedIds' = <<>>
    /\ clearedIncidents' = <<>>
    /\ idx' = 1
    /\ dbError' = NoError
    /\ stdout' = NoOutput
    /\ UNCHANGED <<now, stateFile, store>>

\* for (const incident of incidents) db.recordIncident(incident): the first
\* n iterations.
RECURSIVE recordAll(_, _, _, _)
recordAll(st, incs, n, t) ==
    IF n = 0 THEN st
    ELSE recordIncident(recordAll(st, incs, n - 1, t), incs[n], t)

\* The database block (lines 115-128).  throwsAt is the iteration of the loop
\* in which db.recordIncident throws (Len(incs) + 1: in none).  A throw, of
\* the loop or of db.markCleared, ends the block in the catch at line 125.
databaseBlock(st, incs, ids, throwsAt, t) ==
    IF throwsAt <= Len(incs)
    THEN [store |-> recordAll(st, incs, throwsAt - 1, t), error |-> WriteFailed]
    ELSE LET recorded == recordAll(st, incs, Len(incs), t)
         IN IF Len(ids) > 0
            THEN LET r == markCleared(recorded, ids, t)
                 IN [store |-> r.store,
                     error |-> IF r.threw THEN MissingParameter ELSE NoError]
            ELSE [store |-> recorded, error |-> NoError]

\* Lines 93-207 with a fetch that resolves: load, diff, save, persist, print.
\* t is what Date.now() returns during this run.
RunBody(outcome, throwsAt, t) ==
    LET incs == incidentsOf(outcome)
        st   == loadState
        ids  == diffClearedIds(incs, st)
        blk  == databaseBlock(store, incs, ids, throwsAt, t)
    IN /\ data' = outcome
       /\ state' = st
       /\ incidents' = incs
       /\ newIncidents' = diffNew(incs, st)
       /\ clearedIds' = ids
       /\ clearedIncidents' = diffCleared(incs, st)
       /\ stateFile' = [incidents |-> AssignAll(<<>>, incs), lastUpdate |-> t]
       /\ now' = t
       /\ store' = blk.store
       /\ idx' = throwsAt
       /\ dbError' = blk.error
       /\ stdout' = consoleLog(st, incs, diffNew(incs, st), diffCleared(incs, st), t)
       /\ exitCode' = 0

\* One run of `node dispatch-monitor.js`, started by cron after the previous
\* run has exited.
Run ==
    /\ cycles < MaxCycles
    /\ cycles' = cycles + 1
    /\ UNCHANGED <<jsonOutput, OUTPUT_MODE>>
    /\ UNCHANGED <<botVars, aggVars, statsVars>>
    /\ \E outcome \in FetchOutcomes :
          IF FetchThrows(outcome) THEN OnError(outcome)
          ELSE \E t \in ClockReads :
                  \E throwsAt \in 1..(Len(incidentsOf(outcome)) + 1) :
                      RunBody(outcome, throwsAt, t)

Next == Run

Spec == Init /\ [][Next]_vars

\* ------------------------------------------- poll cycles after earlier ones
\* The process starts on what an earlier run left on disk: that run polled s
\* at time 0, saved the state file (line 112) and recorded every incident
\* (lines 118-120).
RecoverInit ==
    /\ now = 0
    /\ \E s \in FeatureLists :
          /\ stateFile = [incidents |-> AssignAll(<<>>, s), lastUpdate |-> 0]
          /\ store = recordAll({}, s, Len(s), 0)
    /\ data = NoData
    /\ state = [incidents |-> <<>>, lastUpdate |-> NULL]
    /\ incidents = <<>>
    /\ newIncidents = <<>>
    /\ clearedIds = <<>>
    /\ clearedIncidents = <<>>
    /\ idx = 1
    /\ dbError = NoError
    /\ exitCode = NULL
    /\ cycles = 0
    /\ jsonOutput = FALSE
    /\ OUTPUT_MODE = "always"
    /\ stdout = NoOutput
    /\ BotIdle
    /\ AggIdle
    /\ StatsIdle

RecoverSpec == RecoverInit /\ [][Run]_vars

\* ------------------------------------------------- the renderer on its own
\* A text of n characters.
RECURSIVE Text(_)
Text(n) ==
    IF n = 0 THEN ""
    ELSE IF n % 2 = 1 THEN "X" \o Text(n - 1)
    ELSE LET half == Text(n \div 2) IN half \o half

\* The free-text lengths of the lines drawn: a short line, two lines that
\* together sit at the edge of the budget, and a line longer than the budget.
RenderTextLengths == {10, 879, 886, 2100}

\* A poll is a block of short lines received at time 300 and up to MaxLines
\* records of any of the lengths, received before or after the block; the
\* block takes the count of lines, and of omitted lines, from one digit to two.
FillerCounts == {0, 8}

Filler(count) ==
    [j \in 1..count |->
        [ObjectId |-> 1000 + j, CallReceivedTime |-> 300, Location |-> Text(10)]]

RenderTails ==
    UNION {[1..n -> {[CallReceivedTime |-> c, Location |-> Text(len)]
                        : c \in {100, 400}, len \in RenderTextLengths}]
              : n \in 0..MaxLines}

RenderInputs ==
    {Filler(count) \o [i \in DOMAIN tail |->
                          [ObjectId         |-> i,
                           CallReceivedTime |-> tail[i].CallReceivedTime,
                           Location         |-> tail[i].Location]]
        : count \in FillerCounts, tail \in RenderTails}

RenderInit ==
    /\ Init
    /\ store = {}
    /\ ~jsonOutput
    /\ OUTPUT_MODE = "always"

\* Lines 146-180 applied once to a poll's incidents, at a time t.
Render ==
    /\ stdout = NoOutput
    /\ \E incs \in RenderInputs : \E t \in 0..MaxTime :
          /\ incidents' = incs
          /\ now' = t
          /\ stdout' = fullStatus(incs, t)
    /\ UNCHANGED <<stateFile, store, data, state, newIncidents, clearedIds,
                   clearedIncidents, idx, dbError, exitCode, cycles,
                   jsonOutput, OUTPUT_MODE>>
    /\ UNCHANGED <<botVars, aggVars, statsVars>>

RenderSpec == RenderInit /\ [][Render]_vars

\* ---------------------------------------------------------------- the bot
\* index.js: updateDispatch is started once when the client is ready and
\* then by setInterval; every await is a point where other invocations and
\* Discord can take steps.  An awaited request can fail; a message fetch or
\* edit that fails stands also for a status message somebody has deleted.
BotObjectIds == {9, 10}

BotIncident == {[ObjectId |-> 9, CallReceivedTime |-> 100],
                [ObjectId |-> 10, CallReceivedTime |-> 200]}

\* The feed's records in any arrival order, ids unique within a poll.
BotFeeds ==
    {s \in UNION {[1..n -> BotIncident] : n \in 0..Cardinality(BotIncident)} :
        \A i, j \in DOMAIN s : i # j => s[i].ObjectId # s[j].ObjectId}

BotFetchOutcomes ==
    {[kind |-> "error"]} \cup {[kind |-> "ok", features |-> s] : s \in BotFeeds}

\* String(n) as its decimal digits.
RECURSIVE Digits(_)
Digits(n) == IF n < 10 THEN <<n>> ELSE Digits(n \div 10) \o <<n % 10>>

\* a < b for strings of digits (code unit order).
RECURSIVE LexBefore(_, _)
LexBefore(a, b) ==
    IF a = <<>> THEN b # <<>>
    ELSE IF b = <<>> THEN FALSE
    ELSE IF Head(a) # Head(b) THEN Head(a) < Head(b)
    ELSE LexBefore(Tail(a), Tail(b))

RECURSIVE InsertDefault(_, _)
InsertDefault(sorted, id) ==
    IF sorted = <<>> THEN <<id>>
    ELSE IF LexBefore(Digits(id), Digits(Head(sorted)))
         THEN <<id>> \o sorted
         ELSE <<Head(sorted)>> \o InsertDefault(Tail(sorted), id)

\* Mutant: the ids are not sorted.
sortDefault_ArrivalOrder(ids) == ids

\* Array.prototype.sort() without a comparator: the elements are compared as
\* strings.
RECURSIVE sortDefault(_)
sortDefault(ids) ==
    IF ids = <<>> THEN <<>>
    ELSE InsertDefault(sortDefault(SubSeq(ids, 1, Len(ids) - 1)), ids[Len(ids)])

\* JSON.stringify of an array of integers.
RECURSIVE JoinIds(_)
JoinIds(ids) ==
    IF ids = <<>> THEN ""
    ELSE IF Len(ids) = 1 THEN ToString(ids[1])
    ELSE ToString(ids[1]) \o "," \o JoinIds(Tail(ids))

stringify(ids) == "[" \o JoinIds(ids) \o "]"

\* Line 107: JSON.stringify(incidents.map(i => i.ObjectId).sort())
fingerprint(incs) ==
    stringify(sortDefault([i \in DOMAIN incs |-> incs[i].ObjectId]))

\* "Limit to 20 to fit in message"
StatusLimit == 20

\* Mutant: the slice takes one incident more than the limit.
buildStatusMessage_SliceTooLong(incs) ==
    IF Len(incs) = 0 THEN [kind |-> "No active incidents"]
    ELSE LET sorted == sortNewestFirst(incs)
             shown  == IF Len(sorted) > StatusLimit THEN StatusLimit + 1 ELSE Len(sorted)
         IN [kind   |-> "status",
             total  |-> Len(sorted),
             shown  |-> [i \in 1..shown |-> sorted[i].ObjectId],
             marker |-> IF Len(sorted) > StatusLimit THEN Len(sorted) - StatusLimit
                        ELSE NoMarker]

\* buildStatusMessage(incidents): the text, by what it shows.
buildStatusMessage(incs) ==
    IF Len(incs) = 0 THEN [kind |-> "No active incidents"]
    ELSE LET sorted == sortNewestFirst(incs)
             shown  == IF Len(sorted) > StatusLimit THEN StatusLimit ELSE Len(sorted)
         IN [kind   |-> "status",
             total  |-> Len(sorted),
             shown  |-> [i \in 1..shown |-> sorted[i].ObjectId],
             marker |-> IF Len(sorted) > StatusLimit THEN Len(sorted) - StatusLimit
                        ELSE NoMarker]

BotInit ==
    /\ Init
    /\ store = {}
    /\ ~jsonOutput
    /\ OUTPUT_MODE = "always"

\* The invocation has returned: its locals other than the poll are gone.
Finish(c, log) ==
    [c EXCEPT !.pc = "done", !.message = NoMessage, !.fetchId = NULL, !.log = log]

\* Lines 124 and 135: with a status message id the invocation fetches the
\* message, without one it sends.
Publish(c, messageId) ==
    IF messageId # NULL THEN [c EXCEPT !.pc = "fetchMessage", !.fetchId = messageId]
    ELSE [c EXCEPT !.pc = "send", !.fetchId = NULL]

\* client.once('ready') calls updateDispatch and awaits it before it sets the
\* interval (lines 163-171); every later tick of the timer calls it again.
Tick ==
    /\ \E i \in 1..MaxTicks :
          /\ calls[i].pc = "idle"
          /\ \A j \in 1..(i - 1) : calls[j].pc # "idle"
          /\ i > 1 => calls[1].pc = "done"
          /\ calls' = [calls EXCEPT ![i].pc = "fetch"]
    /\ UNCHANGED <<lastIncidentHash, statusMessageId, dispatchThread, threads,
                   messages, sends>>
    /\ UNCHANGED <<pollVars, aggVars, statsVars>>

\* Mutant: the comparison is made with the id of the status message.
NoChanges_AgainstMessageId(currentHash) == currentHash = ToString(statusMessageId)

\* Line 110: currentHash === lastIncidentHash
NoChanges(currentHash) == currentHash = lastIncidentHash

\* `await fetchDispatch()` settles (line 104); lines 106-124 run.
FetchSettled(i) ==
    /\ calls[i].pc = "fetch"
    /\ \E outcome \in BotFetchOutcomes :
          IF FetchThrows(outcome)
          THEN /\ calls' = [calls EXCEPT ![i] = Finish(calls[i], "Update error")]
               /\ UNCHANGED lastIncidentHash
          ELSE LET incs == incidentsOf(outcome)
                   hash == fingerprint(incs)
                   c    == [calls[i] EXCEPT !.incidents = incs, !.currentHash = hash]
               IN IF NoChanges(hash)
                  THEN /\ calls' = [calls EXCEPT ![i] = Finish(c, "No changes")]
                       /\ UNCHANGED lastIncidentHash
                  ELSE /\ lastIncidentHash' = hash
                       /\ LET m == [c EXCEPT !.message = buildStatusMessage(incs)]
                          IN calls' = [calls EXCEPT ![i] =
                                 IF dispatchThread = NULL
                                 THEN [m EXCEPT !.pc = "channel"]
                                 ELSE Publish(m, statusMessageId)]
    /\ UNCHANGED <<statusMessageId, dispatchThread, threads, messages, sends>>
    /\ UNCHANGED <<pollVars, aggVars, statsVars>>

\* `await client.channels.fetch(CHANNEL_ID)` settles (line 119);
\* findOrCreateThread asks for the active threads (line 82).
ChannelFetched(i) ==
    /\ calls[i].pc = "channel"
    /\ \E ok \in BOOLEAN :
          calls' = [calls EXCEPT ![i] =
              IF ok THEN [calls[i] EXCEPT !.pc = "threads"]
              ELSE Finish(calls[i], "Update error")]
    /\ UNCHANGED <<lastIncidentHash, statusMessageId, dispatchThread, threads,
                   messages, sends>>
    /\ UNCHANGED <<pollVars, aggVars, statsVars>>

\* `await channel.threads.fetchActive()` settles (line 82): an existing
\* thread is returned and assigned (line 120), or a thread is asked for.
ThreadsFetched(i) ==
    /\ calls[i].pc = "threads"
    /\ \E ok \in BOOLEAN :
          IF ~ok
          THEN /\ calls' = [calls EXCEPT ![i] = Finish(calls[i], "Update error")]
               /\ UNCHANGED dispatchThread
          ELSE IF threads # {}
          THEN /\ dispatchThread' = CHOOSE t \in threads : \A u \in threads : t <= u
               /\ calls' = [calls EXCEPT ![i] = Publish(calls[i], statusMessageId)]
          ELSE /\ calls' = [calls EXCEPT ![i].pc = "create"]
               /\ UNCHANGED dispatchThread
    /\ UNCHANGED <<lastIncidentHash, statusMessageId, threads, messages, sends>>
    /\ UNCHANGED <<pollVars, aggVars, statsVars>>

\* `await channel.threads.create(...)` settles (line 92); line 120 assigns.
ThreadCreated(i) ==
    /\ calls[i].pc = "create"
    /\ \E ok \in BOOLEAN :
          IF ~ok
          THEN /\ calls' = [calls EXCEPT ![i] = Finish(calls[i], "Update error")]
               /\ UNCHANGED <<dispatchThread, threads>>
          ELSE LET t == Cardinality(threads) + 1
               IN /\ threads' = threads \cup {t}
                  /\ dispatchThread' = t
                  /\ calls' = [calls EXCEPT ![i] = Publish(calls[i], statusMessageId)]
    /\ UNCHANGED <<lastIncidentHash, statusMessageId, messages, sends>>
    /\ UNCHANGED <<pollVars, aggVars, statsVars>>

\* `await dispatchThread.messages.fetch(statusMessageId)` settles (line 126):
\* msg.edit is asked for, or the catch at line 129 forgets the id and line
\* 136 sends.
MessageFetched(i) ==
    /\ calls[i].pc = "fetchMessage"
    /\ \E ok \in BOOLEAN :
          IF ok
          THEN /\ calls' = [calls EXCEPT ![i].pc = "edit"]
               /\ UNCHANGED statusMessageId
          ELSE /\ statusMessageId' = NULL
               /\ calls' = [calls EXCEPT ![i] = Publish(calls[i], NULL)]
    /\ UNCHANGED <<lastIncidentHash, dispatchThread, threads, messages, sends>>
    /\ UNCHANGED <<pollVars, aggVars, statsVars>>

\* `await msg.edit(message)` settles (line 127); line 135 reads
\* statusMessageId again.
MessageEdited(i) ==
    /\ calls[i].pc = "edit"
    /\ \E ok \in BOOLEAN :
          IF ok
          THEN /\ messages' = [messages EXCEPT ![calls[i].fetchId] = calls[i].message]
               /\ UNCHANGED statusMessageId
               /\ calls' = [calls EXCEPT ![i] =
                      IF statusMessageId = NULL THEN Publish(calls[i], NULL)
                      ELSE Finish(calls[i], "Updated")]
          ELSE /\ statusMessageId' = NULL
               /\ calls' = [calls EXCEPT ![i] = Publish(calls[i], NULL)]
               /\ UNCHANGED messages
    /\ UNCHANGED <<lastIncidentHash, dispatchThread, threads, sends>>
    /\ UNCHANGED <<pollVars, aggVars, statsVars>>

\* `await dispatchThread.send(message)` settles (line 136).
MessageSent(i) ==
    /\ calls[i].pc = "send"
    /\ \E ok \in BOOLEAN :
          IF ok
          THEN LET id == sends + 1
               IN /\ messages' = [m \in DOMAIN messages \cup {id} |->
                                     IF m = id THEN calls[i].message ELSE messages[m]]
                  /\ sends' = id
                  /\ statusMessageId' = id
                  /\ calls' = [calls EXCEPT ![i] = Finish(calls[i], "Created status message")]
          ELSE /\ calls' = [calls EXCEPT ![i] = Finish(calls[i], "Update error")]
               /\ UNCHANGED <<messages, sends, statusMessageId>>
    /\ UNCHANGED <<lastIncidentHash, dispatchThread, threads>>
    /\ UNCHANGED <<pollVars, aggVars, statsVars>>

BotNext ==
    \/ Tick
    \/ \E i \in 1..MaxTicks :
          \/ FetchSettled(i)
          \/ ChannelFetched(i)
          \/ ThreadsFetched(i)
          \/ ThreadCreated(i)
          \/ MessageFetched(i)
          \/ MessageEdited(i)
          \/ MessageSent(i)

BotSpec == BotInit /\ [][BotNext]_vars

\* ------------------------------------------- the status message on its own
\* buildStatusMessage on polls around the limit of 20: a block of records in
\* the feed's order, oldest first (received at 201, 202, ...), followed by up
\* to MaxExtra records received before the block, inside it or after it.
StatusBlockCounts == {0, 18, 19}

StatusBlock(count) ==
    [j \in 1..count |-> [ObjectId |-> 1000 + j, CallReceivedTime |-> 200 + j]]

StatusExtraTimes == {100, 210, 400}

StatusInputs ==
    {StatusBlock(count) \o [i \in DOMAIN extra |->
                               [ObjectId |-> i, CallReceivedTime |-> extra[i]]]
        : count \in StatusBlockCounts,
          extra \in UNION {[1..n -> StatusExtraTimes] : n \in 0..MaxExtra}}

\* Line 113 of updateDispatch on its own: the first invocation holds a poll
\* and builds the message.
Build ==
    /\ calls[1].message = NoMessage
    /\ \E incs \in StatusInputs :
          calls' = [calls EXCEPT ![1].incidents = incs,
                                 ![1].message = buildStatusMessage(incs)]
    /\ UNCHANGED <<lastIncidentHash, statusMessageId, dispatchThread, threads,
                   messages, sends>>
    /\ UNCHANGED <<pollVars, aggVars, statsVars>>

StatusSpec == BotInit /\ [][Build]_vars

\* ------------------------------------------------------------ aggregates
\* The aggregate queries of db.js over a table of incidents.  Time is counted
\* in hours here (the code's milliseconds, 3 600 000 to the unit); a row is
\* the columns the queries read.
HoursPerDay == 24
\* Date.now() when the queries run.
QueryTime == 72
\* LIMIT 30 of getDailyStats.
DailyLimit == 30

\* A TEXT column that is NULL.
NullText == "(NULL)"

\* The occurrences the table is drawn from: type, street and city as
\* recordIncident stored them (street NULL for a record without location).
AggOccurrences ==
    {[incident_type |-> "FIGHT/ASSAULT", street |-> "8TH AVE S",     city |-> "NASHVILLE"],
     [incident_type |-> "WIRES DOWN",    street |-> "8TH AVE S",     city |-> "NASHVILLE"],
     [incident_type |-> "ROBBERY",       street |-> "CHARLOTTE AVE", city |-> "NASHVILLE"],
     [incident_type |-> "CARJACKING",    street |-> "CHARLOTTE AVE", city |-> "ANTIOCH"],
     [incident_type |-> "Shooting",      street |-> NullText,        city |-> "NASHVILLE"]}

\* call_received: outside a window of one day, and inside it on either side
\* of a midnight.
AggCallTimes == {20, 50, 70}

AggTables ==
    {{[object_id      |-> i,
       incident_type  |-> t[i].occurrence.incident_type,
       street         |-> t[i].occurrence.street,
       city           |-> t[i].occurrence.city,
       call_received  |-> t[i].call_received] : i \in DOMAIN t}
        : t \in UNION {[1..n -> [occurrence : AggOccurrences, call_received : AggCallTimes]]
                          : n \in 0..MaxRows}}

\* SQLite's LIKE folds the case of ASCII letters.
UpperOf ==
    [a |-> "A", b |-> "B", c |-> "C", d |-> "D", e |-> "E", f |-> "F", g |-> "G",
     h |-> "H", i |-> "I", j |-> "J", k |-> "K", l |-> "L", m |-> "M", n |-> "N",
     o |-> "O", p |-> "P", q |-> "Q", r |-> "R", s |-> "S", t |-> "T", u |-> "U",
     v |-> "V", w |-> "W", x |-> "X", y |-> "Y", z |-> "Z"]

RECURSIVE ToUpper(_)
ToUpper(text) ==
    IF text = "" THEN ""
    ELSE LET c == SubSeq(text, 1, 1)
         IN (IF c \in DOMAIN UpperOf THEN UpperOf[c] ELSE c)
            \o ToUpper(SubSeq(text, 2, Len(text)))

\* text LIKE '%keyword%'
Like(text, keyword) ==
    LET t == ToUpper(text)
        k == ToUpper(keyword)
    IN \E i \in 1..(Len(t) - Len(k) + 1) : SubSeq(t, i, i + Len(k) - 1) = k

LikeAny(text, keywords) == \E k \in keywords : Like(text, k)

\* The keywords of the CASE in getDailyStats (line 132).
DailyViolentKeywords == {"ASSAULT", "SHOOT"}

\* The keywords of the WHERE clause in getViolentStreets (lines 207-212).
StreetViolentKeywords == {"SHOOT", "ASSAULT", "FIGHT", "ROBBERY", "STAB", "HOMICIDE"}

\* date(call_received / 1000, 'unixepoch', 'localtime'), as a day number.
date(callReceived, offset) == (callReceived + offset) \div HoursPerDay

\* A set of integers as a list, largest first.
RECURSIVE Descending(_)
Descending(S) ==
    IF S = {} THEN <<>>
    ELSE LET m == CHOOSE x \in S : \A y \in S : y <= x
         IN <<m>> \o Descending(S \ {m})

\* The first n elements of a list (LIMIT n).
Limit(rows, n) == SubSeq(rows, 1, IF Len(rows) < n THEN Len(rows) ELSE n)

\* db.getDailyStats(days) at time t on a host `offset` hours east of UTC.
getDailyStats(rows, days, t, offset) ==
    LET since    == t - days * HoursPerDay
        selected == {r \in rows : r.call_received > since}
        OnDate(d) == {r \in selected : date(r.call_received, offset) = d}
        dates    == Descending({date(r.call_received, offset) : r \in selected})
    IN Limit([n \in DOMAIN dates |->
                 [date    |-> dates[n],
                  total   |-> Cardinality(OnDate(dates[n])),
                  violent |-> Cardinality({r \in OnDate(dates[n]) :
                                  LikeAny(r.incident_type, DailyViolentKeywords)})]],
             DailyLimit)

\* db.getViolentStreets(days, limit) at time t: every list the query can
\* return (groups with the same count come in either order).
getViolentStreets(rows, days, limit, t) ==
    LET since    == t - days * HoursPerDay
        selected == {r \in rows : /\ r.call_received > since
                                  /\ r.street # NullText
                                  /\ LikeAny(r.incident_type, StreetViolentKeywords)}
        groups   == {[street |-> r.street, city |-> r.city,
                      count  |-> Cardinality({q \in selected :
                                     q.street = r.street /\ q.city = r.city})]
                        : r \in selected}
        ordered  == {o \in [1..Cardinality(groups) -> groups] :
                        /\ \A i, j \in DOMAIN o : i # j => o[i] # o[j]
                        /\ \A i, j \in DOMAIN o : i < j => o[i].count >= o[j].count}
    IN {Limit(o, limit) : o \in ordered}

\* The process has loaded db.js on a table of incidents.
AggInit ==
    /\ now = QueryTime
    /\ stateFile = NoFile
    /\ store \in AggTables
    /\ data = NoData
    /\ state = [incidents |-> <<>>, lastUpdate |-> NULL]
    /\ incidents = <<>>
    /\ newIncidents = <<>>
    /\ clearedIds = <<>>
    /\ clearedIncidents = <<>>
    /\ idx = 1
    /\ dbError = NoError
    /\ exitCode = NULL
    /\ cycles = 0
    /\ jsonOutput = FALSE
    /\ OUTPUT_MODE = "always"
    /\ stdout = NoOutput
    /\ BotIdle
    /\ hostOffset \in {-6, 0}
    /\ dailyStats = NoResult
    /\ violentStreets = NoResult
    /\ StatsIdle

\* A call of db.getDailyStats(days).
QueryDaily ==
    /\ dailyStats = NoResult
    /\ \E days \in 1..2 :
          dailyStats' = [kind |-> "rows", days |-> days,
                         rows |-> getDailyStats(store, days, now, hostOffset)]
    /\ UNCHANGED <<hostOffset, violentStreets>>
    /\ UNCHANGED <<pollVars, botVars, statsVars>>

\* A call of db.getViolentStreets(days, limit).
QueryStreets ==
    /\ violentStreets = NoResult
    /\ \E days \in 1..2 : \E limit \in 1..2 :
          \E rows \in getViolentStreets(store, days, limit, now) :
              violentStreets' = [kind |-> "rows", days |-> days, limit |-> limit,
                                 rows |-> rows]
    /\ UNCHANGED <<hostOffset, dailyStats>>
    /\ UNCHANGED <<pollVars, botVars, statsVars>>

AggNext == QueryDaily \/ QueryStreets

AggSpec == AggInit /\ [][AggNext]_vars

\* -------------------------------------------------------------- type stats
\* db.getTypeStats over a table of incidents; a row is the columns the query
\* reads.  Time is counted in hours, as for the other aggregates.
MinutesPerHour == 60
\* LIMIT 20 of getStats.
TypeLimit == 20

\* The main of dispatch-monitor.js has not run in this process, and there is
\* no state file.
MainIdle ==
    /\ stateFile = NoFile
    /\ data = NoData
    /\ state = [incidents |-> <<>>, lastUpdate |-> NULL]
    /\ incidents = <<>>
    /\ newIncidents = <<>>
    /\ clearedIds = <<>>
    /\ clearedIncidents = <<>>
    /\ idx = 1
    /\ dbError = NoError
    /\ exitCode = NULL
    /\ cycles = 0
    /\ jsonOutput = FALSE
    /\ OUTPUT_MODE = "always"
    /\ stdout = NoOutput

\* A table holds a block of records and up to MaxRows further records.  The
\* block, when there is one, has 20 types with 21, 20, ... 2 active records,
\* all received at 50.
TypeBlockCounts == {0, 20}

TypeBlock(count) ==
    UNION {{[object_id     |-> 1000 + 100 * k + j,
             incident_type |-> "TYPE " \o ToString(k),
             call_received |-> 50,
             cleared       |-> FALSE,
             cleared_at    |-> NULL] : j \in 1..(22 - k)} : k \in 1..count}

\* The further records: received outside a window of 24 hours or inside it,
\* active or cleared after one or three hours.
TypeOccurrences ==
    {[incident_type |-> ty, call_received |-> c, cleared |-> FALSE, cleared_at |-> NULL]
        : ty \in {"FIGHT/ASSAULT", "WIRES DOWN"}, c \in {20, 50}}
    \cup {[incident_type |-> ty, call_received |-> c, cleared |-> TRUE,
           cleared_at |-> c + d]
            : ty \in {"FIGHT/ASSAULT", "WIRES DOWN"}, c \in {20, 50}, d \in {1, 3}}

TypeTables ==
    {TypeBlock(count) \cup {[object_id     |-> i,
                             incident_type |-> t[i].incident_type,
                             call_received |-> t[i].call_received,
                             cleared       |-> t[i].cleared,
                             cleared_at    |-> t[i].cleared_at] : i \in DOMAIN t}
        : count \in TypeBlockCounts,
          t \in UNION {[1..n -> TypeOccurrences] : n \in 0..MaxRows}}

\* Mutant: every record of the group enters the average.
ClearedOf_Any(rows) == rows

\* CASE WHEN cleared = 1 THEN ... END: the rows that give AVG a value.
ClearedOf(rows) == {r \in rows : r.cleared}

\* (cleared_at - call_received) / 60000.0, in minutes.
clearDuration(r) == (r.cleared_at - r.call_received) * MinutesPerHour

RECURSIVE SumDurations(_)
SumDurations(rows) ==
    IF rows = {} THEN 0
    ELSE LET r == CHOOSE x \in rows : TRUE
         IN clearDuration(r) + SumDurations(rows \ {r})

\* AVG(...) as the exact fraction sum / n; n = 0 is SQL NULL (no value
\* entered the average).
Average(rows) == [sum |-> SumDurations(rows), n |-> Cardinality(rows)]

\* ORDER BY count DESC: every order of the groups the clause allows (groups
\* with the same count come in any order).
RECURSIVE OrderedByCount(_)
OrderedByCount(groups) ==
    IF groups = {} THEN {<<>>}
    ELSE UNION {{<<g>> \o rest : rest \in OrderedByCount(groups \ {g})}
                   : g \in {x \in groups : \A y \in groups : y.count <= x.count}}

\* db.getTypeStats(hours) at time t: every list the query can return.
getTypeStats(rows, hours, t) ==
    LET since    == t - hours
        selected == {r \in rows : r.call_received > since}
        Of(ty)   == {r \in selected : r.incident_type = ty}
        groups   == {[incident_type    |-> ty,
                      count            |-> Cardinality(Of(ty)),
                      avg_duration_min |-> Average(ClearedOf(Of(ty)))]
                        : ty \in {r.incident_type : r \in selected}}
    IN {Limit(o, TypeLimit) : o \in OrderedByCount(groups)}

\* The windows asked for: the default of 24 hours, and 72 hours.
TypeWindows == {24, 72}

\* stats.js has loaded db.js on a table of incidents.
TypeInit ==
    /\ now = QueryTime
    /\ store \in TypeTables
    /\ MainIdle
    /\ BotIdle
    /\ AggIdle
    /\ StatsIdle

\* A call of db.getTypeStats(hours).
QueryTypes ==
    /\ typeStats = NoResult
    /\ \E hours \in TypeWindows :
          \E rows \in getTypeStats(store, hours, now) :
              typeStats' = [kind |-> "rows", hours |-> hours, rows |-> rows]
    /\ UNCHANGED <<dbLoaded, report, reports>>
    /\ UNCHANGED <<pollVars, botVars, aggVars>>

TypeSpec == TypeInit /\ [][QueryTypes]_vars

\* ----------------------------------------------------------- weekly report
\* generateReport of report.js: the total and violent counts, the top types
\* and the archive row.  The hotspot, peak-hour and area sections read the
\* same window and are left out of the text; time is counted in hours.
\* America/Chicago, as hours east of UTC (standard time).
ChicagoOffset == -6
\* LIMIT 10 of topTypes.
TopTypesLimit == 10
\* slice(0, 5) of nonStormTypes.
ListedTypes == 5

\* stormTypes (line 125)
stormTypes == {"WIRES DOWN", "TREE DOWN", "SAFETY HAZARD-BOTH TREES AND WIRES"}

\* incident_type IN (...) and the LIKE patterns of totalStats (lines 68-71).
ReportViolentTypes == {"SHOTS FIRED", "FIGHT/ASSAULT"}
ReportViolentKeywords == {"ROBBERY", "STAB", "HOMICIDE"}

\* toLocaleDateString('en-US', {..., timeZone: 'America/Chicago'}), as a day
\* number.
toLocaleDateString(t) == (t + ChicagoOffset) \div HoursPerDay

\* totalStats: COUNT(*) and SUM(CASE ... END), which is NULL over no row.
\* The CASE reads incident_type only: it is decided once for every type.
totalStats(rows, since) ==
    LET selected == {r \in rows : r.call_received > since}
        violent  == {ty \in {r.incident_type : r \in selected} :
                        \/ ty \in ReportViolentTypes
                        \/ LikeAny(ty, ReportViolentKeywords)}
    IN [total   |-> Cardinality(selected),
        violent |-> IF selected = {} THEN NULL
                    ELSE Cardinality({r \in selected : r.incident_type \in violent})]

\* topTypes: every list the query can return.
topTypes(rows, since) ==
    LET selected == {r \in rows : r.call_received > since}
        groups   == {[incident_type |-> ty,
                      count |-> Cardinality({r \in selected : r.incident_type = ty})]
                        : ty \in {r.incident_type : r \in selected}}
    IN {Limit(o, TopTypesLimit) : o \in OrderedByCount(groups)}

\* (violent / total * 100).toFixed(1): the number in tenths, or 'NaN' (null
\* converts to 0, and 0 / 0 is NaN).
percentage(violent, total) ==
    IF total = 0 THEN [kind |-> "NaN"]
    ELSE [kind |-> "number", tenths |-> (2000 * violent + total) \div (2 * total)]

\* Mutant: storm types stay in the list.
nonStormTypes_Unfiltered(top) == Limit(top, ListedTypes)

\* topTypes.filter(t => !stormTypes.includes(t.incident_type)).slice(0, 5)
nonStormTypes(top) ==
    Limit(SelectSeq(top, LAMBDA g : g.incident_type \notin stormTypes), ListedTypes)

\* topTypes.filter(t => stormTypes.includes(...)).reduce((sum, t) => sum + t.count, 0)
stormCount(top) ==
    LET storm == SelectSeq(top, LAMBDA g : g.incident_type \in stormTypes)
    IN SumOf([n \in DOMAIN storm |-> storm[n].count])

\* Lines 115-172: the report text, by what its lines show.  `storm` is the
\* count of the Storm/Weather line (0: the line is not pushed).
reportText(weekStart, weekEnd, stats, top, t) ==
    [kind      |-> "report",
     weekStart |-> weekStart,
     weekEnd   |-> weekEnd,
     total     |-> stats.total,
     violent   |-> stats.violent,
     percent   |-> percentage(stats.violent, stats.total),
     storm     |-> stormCount(top),
     types     |-> nonStormTypes(top),
     generated |-> t]

\* Mutant: a plain INSERT into a table without the UNIQUE constraint.
insertReport_KeepsOld(table, row) == table \cup {row}

\* INSERT OR REPLACE INTO reports ..., with UNIQUE(week_start): the row that
\* holds the week_start is deleted, the new row inserted.
insertReport(table, row) ==
    {r \in table : r.week_start # row.week_start} \cup {row}

\* A table holds a block of records and up to MaxRows further records.  The
\* block, when there is one, has 9 types, none of them storm or violent, with
\* 11, 10, ... 3 records received at 70.
ReportBlockCounts == {0, 9}

ReportBlock(count) ==
    UNION {{[object_id     |-> 1000 + 100 * k + j,
             incident_type |-> "TYPE " \o ToString(k),
             call_received |-> 70] : j \in 1..(12 - k)} : k \in 1..count}

ReportTables ==
    {ReportBlock(count) \cup {[object_id     |-> i,
                               incident_type |-> t[i].incident_type,
                               call_received |-> t[i].call_received] : i \in DOMAIN t}
        : count \in ReportBlockCounts,
          t \in UNION {[1..n -> [incident_type : {"WIRES DOWN", "TREE DOWN", "FIGHT/ASSAULT"},
                                 call_received : {20, 70}]] : n \in 0..MaxRows}}

\* report.js has loaded db.js on a table of incidents and an empty archive.
ReportInit ==
    /\ now = QueryTime
    /\ store \in ReportTables
    /\ MainIdle
    /\ BotIdle
    /\ AggIdle
    /\ StatsIdle

\* A run of generateReport(days), an hour or a day after the clock was last
\* read; `cycles` counts the runs.
GenerateReport ==
    /\ cycles < MaxCycles
    /\ cycles' = cycles + 1
    /\ \E days \in {1, 7} : \E t \in {now + 1, now + HoursPerDay} :
          LET since     == t - days * HoursPerDay
              weekStart == toLocaleDateString(since)
              weekEnd   == toLocaleDateString(t)
              stats     == totalStats(store, since)
          IN \E top \in topTypes(store, since) :
                LET text == reportText(weekStart, weekEnd, stats, top, t)
                IN /\ now' = t
                   /\ report' = text
                   /\ reports' = insertReport(reports,
                                     [week_start       |-> weekStart,
                                      week_end         |-> weekEnd,
                                      report_text      |-> text,
                                      total_incidents  |-> stats.total,
                                      violent_incidents |-> stats.violent,
                                      created_at       |-> t])
    /\ UNCHANGED <<stateFile, store, data, state, incidents, newIncidents, clearedIds,
                   clearedIncidents, idx, dbError, exitCode, jsonOutput, OUTPUT_MODE,
                   stdout>>
    /\ UNCHANGED <<dbLoaded, typeStats>>
    /\ UNCHANGED <<botVars, aggVars>>

ReportSpec == ReportInit /\ [][GenerateReport]_vars

\* ------------------------------------------------ street and hour columns
\* The monitor on a database an earlier revision of db.js wrote: loading
\* db.js adds the street and hour columns and backfills them (lines 53-76);
\* db.recordIncident then writes both with every row (lines 154-155).  A row
\* is the columns read here; time is counted in hours.
Digit == {"0", "1", "2", "3", "4", "5", "6", "7", "8", "9"}

\* The text without its longest prefix of characters of `chars`.
RECURSIVE DropLeading(_, _)
DropLeading(text, chars) ==
    IF text # "" /\ SubSeq(text, 1, 1) \in chars
    THEN DropLeading(SubSeq(text, 2, Len(text)), chars)
    ELSE text

RECURSIVE DropTrailing(_, _)
DropTrailing(text, chars) ==
    IF text # "" /\ SubSeq(text, Len(text), Len(text)) \in chars
    THEN DropTrailing(SubSeq(text, 1, Len(text) - 1), chars)
    ELSE text

\* String.prototype.trim / SQL TRIM
trim(text) == DropTrailing(DropLeading(text, {" "}), {" "})

\* INSTR(text, pattern): the position of the first occurrence, or 0.
INSTR(text, pattern) ==
    LET at == {i \in 1..(Len(text) - Len(pattern) + 1) :
                  SubSeq(text, i, i + Len(pattern) - 1) = pattern}
    IN IF at = {} THEN 0 ELSE CHOOSE i \in at : \A j \in at : i <= j

\* text.replace(/^\d+\s*/, ''): one digit or more at the start, and the
\* white space after them.
stripHouseNumber(text) ==
    LET rest == DropLeading(text, Digit)
    IN IF rest = text THEN text ELSE DropLeading(rest, {" "})

\* extractStreet(location), lines 8-16; a null location gives null.
extractStreet(location) ==
    IF location = NullText \/ location = "" THEN NullText
    ELSE IF INSTR(location, " / ") # 0
         THEN trim(stripHouseNumber(SubSeq(location, 1, INSTR(location, " / ") - 1)))
         ELSE trim(stripHouseNumber(location))

\* getHour(timestamp), lines 19-23: the hour in America/Chicago.  With
\* hour12: false the en-US formatter writes midnight as 0 or as 24, depending
\* on the engine's locale data: every value the call can return.
getHour(timestamp) ==
    LET h == (timestamp + ChicagoOffset) % HoursPerDay
    IN IF h = 0 THEN {0, HoursPerDay} ELSE {h}

\* REPLACE(text, pattern, ''): every occurrence removed, left to right.
RECURSIVE RemoveAll(_, _)
RemoveAll(text, pattern) ==
    IF pattern = "" \/ Len(text) < Len(pattern) THEN text
    ELSE IF SubSeq(text, 1, Len(pattern)) = pattern
         THEN RemoveAll(SubSeq(text, Len(pattern) + 1, Len(text)), pattern)
         ELSE SubSeq(text, 1, 1) \o RemoveAll(SubSeq(text, 2, Len(text)), pattern)

\* The SET expression of the street backfill (lines 64-70).
backfillStreet(location) ==
    LET member == IF INSTR(location, "/") # 0
                  THEN SubSeq(location, 1, INSTR(location, "/") - 2)
                  ELSE location
        first  == SubSeq(location, 1, INSTR(location \o " ", " "))
    IN trim(RemoveAll(member, first))

\* strftime('%H', call_received / 1000, 'unixepoch', 'localtime')
backfillHour(callReceived, offset) == (callReceived + offset) % HoursPerDay

\* The two UPDATEs of lines 62-76 on one row.
backfill(r, offset) ==
    [r EXCEPT !.street = IF r.street = NullText /\ r.location # NullText
                         THEN backfillStreet(r.location) ELSE @,
              !.hour   = IF r.hour = NULL
                         THEN backfillHour(r.call_received, offset) ELSE @]

\* Rows written before the columns existed: after ALTER TABLE both are NULL.
LegacyTables ==
    {{[object_id     |-> 1000 + i,
       location      |-> t[i].location,
       call_received |-> t[i].call_received,
       street        |-> NullText,
       hour          |-> NULL] : i \in DOMAIN t}
        : t \in UNION {[1..n -> [location : {"2600 8TH AVE S", "CHARLOTTE AVE / 28TH AVE N"},
                                 call_received : {6, 50}]] : n \in 0..MaxRows}}

\* The feed records the monitor records: a house number, an intersection, an
\* intersection of a numbered street, no location; received at Chicago
\* midnight or in the evening.
MigrateIncidents ==
    [Location : {"2600 8TH AVE S", "CHARLOTTE AVE / 28TH AVE N", "8TH AVE S / BROADWAY",
                 NullText},
     CallReceivedTime : {6, 50}]

MigrateInit ==
    /\ now = QueryTime
    /\ store \in LegacyTables
    /\ MainIdle
    /\ BotIdle
    /\ hostOffset \in {ChicagoOffset, 0}
    /\ dailyStats = NoResult
    /\ violentStreets = NoResult
    /\ dbLoaded = FALSE
    /\ typeStats = NoResult
    /\ report = NoReport
    /\ reports = {}

\* require('./db') (dispatch-monitor.js:21): the schema, the migration and
\* the backfill of db.js run.
Require ==
    /\ ~dbLoaded
    /\ dbLoaded' = TRUE
    /\ store' = {backfill(r, hostOffset) : r \in store}
    /\ UNCHANGED <<now, stateFile, data, state, incidents, newIncidents, clearedIds,
                   clearedIncidents, idx, dbError, exitCode, cycles, jsonOutput,
                   OUTPUT_MODE, stdout>>
    /\ UNCHANGED <<typeStats, report, reports>>
    /\ UNCHANGED <<botVars, aggVars>>

\* db.recordIncident(incident) for the next incident of a poll (line 119):
\* INSERT OR IGNORE of the row with its street and hour.
Record ==
    /\ dbLoaded
    /\ Len(incidents) < MaxRows
    /\ \E i \in MigrateIncidents : \E h \in getHour(i.CallReceivedTime) :
          LET incident == [ObjectId         |-> Len(incidents) + 1,
                           CallReceivedTime |-> i.CallReceivedTime,
                           Location         |-> i.Location]
          IN /\ incidents' = Append(incidents, incident)
             /\ store' = IF HasKey(store, incident.ObjectId, incident.CallReceivedTime)
                         THEN store
                         ELSE store \cup {[object_id     |-> incident.ObjectId,
                                           location      |-> incident.Location,
                                           call_received |-> incident.CallReceivedTime,
                                           street        |-> extractStreet(incident.Location),
                                           hour          |-> h]}
    /\ UNCHANGED <<now, stateFile, data, state, newIncidents, clearedIds,
                   clearedIncidents, idx, dbError, exitCode, cycles, jsonOutput,
                   OUTPUT_MODE, stdout>>
    /\ UNCHANGED statsVars
    /\ UNCHANGED <<botVars, aggVars>>

MigrateNext == Require \/ Record

MigrateSpec == MigrateInit /\ [][MigrateNext]_vars

\* ================================================================ claims

\* The previous snapshot's records whose id the current poll does not report.
Departed == {state.incidents[k] : k \in {x \in DOMAIN state.incidents :
                                           Number(x) \notin currentIdsOf(incidents)}}

\* C1: when a poll cycle has run with previous snapshot P and feed snapshot C
\* (no store write failed), the store holds one row for every occurrence of C,
\* and every occurrence of P whose id is not in C is cleared, its clearedAt a
\* time of this run.  (Stated at the end of the database block.)
C1_CycleClearsDeparted ==
    (exitCode = 0 /\ dbError # WriteFailed) =>
        /\ \A i \in DOMAIN incidents :
              Cardinality(RowsOf(store, incidents[i].ObjectId,
                                 incidents[i].CallReceivedTime)) = 1
        /\ \A p \in Departed :
              \A r \in RowsOf(store, p.ObjectId, p.CallReceivedTime) :
                  r.cleared /\ r.cleared_at \in 0..now

\* C2: newIncidents is exactly the current incidents whose id is not a key of
\* previous, in feed order; clearedIncidents is exactly the full previous
\* records whose id is not among the current ids, each once; with an empty
\* previous, newIncidents is all of current and clearedIncidents is empty.
C2_DifferContract ==
    exitCode = 0 =>
        /\ newIncidents =
              SelectSeq(incidents, LAMBDA i : KeyOf(i.ObjectId) \notin DOMAIN state.incidents)
        /\ Range(clearedIncidents) = Departed
        /\ Len(clearedIncidents) = Cardinality(Departed)
        /\ (DOMAIN state.incidents = {} =>
               newIncidents = incidents /\ clearedIncidents = <<>>)

\* C2 witness: a diff against a non-empty previous snapshot that finds a new
\* and a departed incident.
C2_Witness ==
    /\ exitCode = 0
    /\ newIncidents # <<>>
    /\ clearedIncidents # <<>>
    /\ clearedIncidents[1] \in Range(state.incidents)

\* C3: after db.markCleared(ids) has been called, every record of each id in
\* the batch is cleared.
C3_MarkClearedClearsBatch ==
    (exitCode = 0 /\ dbError # WriteFailed) =>
        \A r \in store : r.object_id \in Range(clearedIds) => r.cleared

\* The occurrences db.recordIncident was called for, and returned, in the run
\* that leads to the primed state.
SameKey(r, q) == r.object_id = q.object_id /\ r.call_received = q.call_received
RowsOfIncident(st, inc) == RowsOf(st, inc.ObjectId, inc.CallReceivedTime)

\* C4: no step changes the firstSeenAt of a row; a recordIncident call leaves
\* a row for its occurrence whose firstSeenAt is the time of the call when the
\* occurrence was not stored before, and whose lastSeenAt, when the row is
\* active, is the time of the call.
C4_FirstSeenFixedLastSeenAdvances ==
    [][ /\ \A r \in store : \E q \in store' : SameKey(r, q) /\ q.first_seen = r.first_seen
        /\ exitCode' = 0 =>
              \A i \in 1..(idx' - 1) :
                 /\ RowsOfIncident(store', incidents'[i]) # {}
                 /\ \A q \in RowsOfIncident(store', incidents'[i]) :
                       /\ ~q.cleared => q.last_seen = now'
                       /\ RowsOfIncident(store, incidents'[i]) = {} => q.first_seen = now'
      ]_vars

\* C4 witness: an active occurrence recorded again at a later time.
C4_Witness ==
    /\ exitCode = 0
    /\ \E i \in 1..(idx - 1) :
          \E r \in RowsOfIncident(store, incidents[i]) :
              ~r.cleared /\ r.first_seen < r.last_seen /\ r.last_seen = now

StoreKeys(st) == {<<r.object_id, r.call_received>> : r \in st}

\* C5: the store never holds two rows with the same (id, receivedAt), rows are
\* never removed, every occurrence recordIncident was called for has a row, and
\* getTotal() is the number of distinct (id, receivedAt) pairs stored.
C5_OneRowPerOccurrence ==
    /\ [](\A r, q \in store : SameKey(r, q) => r = q)
    /\ [](getTotal(store) = Cardinality(StoreKeys(store)))
    /\ [][ /\ StoreKeys(store) \subseteq StoreKeys(store')
           /\ exitCode' = 0 =>
                 StoreKeys(store') = StoreKeys(store) \cup
                     {<<incidents'[i].ObjectId, incidents'[i].CallReceivedTime>>
                         : i \in 1..(idx' - 1)}
         ]_vars

\* C5 witness: the same id stored under two receivedAt values, one of them
\* recorded in two runs.
C5_Witness ==
    \E r, q \in store :
        /\ r.object_id = q.object_id
        /\ r.call_received # q.call_received
        /\ r.first_seen < r.last_seen

\* C6: recordIncident for an occurrence whose row is cleared leaves that row
\* as it was (cleared, lastSeenAt, clearedAt, copied fields) and adds no row
\* for the occurrence.
C6_ClearedRowFrozen ==
    [][ exitCode' = 0 =>
           \A i \in 1..(idx' - 1) :
              (\E r \in RowsOfIncident(store, incidents'[i]) : r.cleared)
                 => RowsOfIncident(store', incidents'[i])
                       = RowsOfIncident(store, incidents'[i])
      ]_vars

\* C6 witness: a cleared occurrence reported again, later and with a changed
\* location text.
C6_Witness ==
    /\ exitCode = 0
    /\ \E i \in 1..(idx - 1) :
          \E r \in RowsOfIncident(store, incidents[i]) :
              r.cleared /\ r.location # incidents[i].Location /\ r.last_seen < now

\* C7: a cleared row stays cleared and keeps its clearedAt in every step.
C7_ClearedAtSetOnce ==
    [][ \A r \in store :
           r.cleared => \E q \in store' :
                           SameKey(r, q) /\ q.cleared /\ q.cleared_at = r.cleared_at
      ]_vars

\* C7 witness: db.markCleared was called with the id of a cleared record, at
\* a time after its clearedAt.
C7_Witness ==
    /\ exitCode = 0
    /\ dbError # WriteFailed
    /\ \E r \in store :
          r.cleared /\ r.object_id \in Range(clearedIds) /\ r.cleared_at < now

\* C8: every row has firstSeenAt <= lastSeenAt, and every cleared row has
\* lastSeenAt <= clearedAt.
C8_SeenOrder ==
    \A r \in store :
        /\ r.first_seen <= r.last_seen
        /\ r.cleared => r.last_seen <= r.cleared_at

\* C8 witness: an active row seen over two runs, and a cleared row whose
\* occurrence was recorded again after its clearedAt.
C8_Witness ==
    /\ exitCode = 0
    /\ \E r \in store : ~r.cleared /\ r.first_seen < r.last_seen
    /\ \E i \in 1..(idx - 1) :
          \E r \in RowsOfIncident(store, incidents[i]) : r.cleared /\ r.cleared_at < now

\* C9: a run whose fetch fails or whose payload is not JSON exits with an
\* error and leaves the state file and the store as they were.
C9_FailedFetchChangesNothing ==
    [][ data'.kind \in {"error", "badjson"} =>
           /\ exitCode' = 1
           /\ stateFile' = stateFile
           /\ store' = store
      ]_vars

\* C9 witness: a run that fails on an unparsable payload after a run that
\* saved a snapshot and stored rows.
C9_Witness ==
    /\ exitCode = 1
    /\ data.kind = "badjson"
    /\ stateFile # NoFile
    /\ stateFile.incidents # <<>>
    /\ \E r \in store : ~r.cleared

\* C10: when one recordIncident call of a run throws, every other occurrence
\* of that poll is still stored and every id cleared in that poll has its
\* records cleared.
C10_WriteFailureIsolated ==
    (exitCode = 0 /\ dbError = WriteFailed) =>
        /\ \A i \in DOMAIN incidents : i # idx => RowsOfIncident(store, incidents[i]) # {}
        /\ \A r \in store : r.object_id \in Range(clearedIds) => r.cleared

\* C11: the full status text (header, kept lines, marker, footer) is never
\* longer than the budget of 2000 characters, whatever the number and the
\* lengths of the lines.
C11_StatusWithinBudget ==
    stdout.kind = "status" => stdout.length <= DISCORD_LIMIT

\* C11 witness: a poll whose newest line is longer than the whole budget and
\* whose status shows no line.
C11_Witness ==
    /\ stdout.kind = "status"
    /\ incidents # <<>>
    /\ formatIncidentShort(sortNewestFirst(incidents)[1]) > DISCORD_LIMIT
    /\ stdout.kept = <<>>

\* C12: the marker is in the output exactly when a line was left out, and its
\* N is the number of lines left out: kept lines + N = all lines.
C12_MarkerCountsOmitted ==
    stdout.kind = "status" =>
        /\ stdout.marker # NoMarker <=> Len(stdout.kept) < Len(incidents)
        /\ stdout.marker # NoMarker =>
               Len(stdout.kept) + stdout.marker = Len(incidents)

\* C12 witness: a status that keeps some lines and leaves out exactly one.
C12_Witness ==
    /\ stdout.kind = "status"
    /\ stdout.kept # <<>>
    /\ stdout.marker = 1

\* Whether a run's output reports diff events.
EmitsNew == stdout.kind \in {"json", "changes"} /\ stdout.new # <<>>
EmitsCleared == stdout.kind \in {"json", "changes"} /\ stdout.cleared # <<>>

\* C13: a run that finds no persisted snapshot state (the first run) reports
\* no new and no cleared incident, in any output mode.
C13_FirstRunSilent ==
    (exitCode = 0 /\ state.lastUpdate = NULL) => ~EmitsNew /\ ~EmitsCleared

\* C14: after a run whose fetch resolved, the keys of the state file are
\* exactly the ids of that poll, each mapped to that poll's record, so no
\* entry of an earlier poll is left.
C14_StateReplacedWholesale ==
    exitCode = 0 =>
        /\ stateFile # NoFile
        /\ DOMAIN stateFile.incidents = {KeyOf(id) : id \in currentIdsOf(incidents)}
        /\ \A i \in DOMAIN incidents :
              stateFile.incidents[KeyOf(incidents[i].ObjectId)] = incidents[i]

\* C14 witness: the loaded state held an id the poll does not report and, for
\* an id the poll does report, another record; neither is in the state file.
C14_Witness ==
    /\ exitCode = 0
    /\ \E k \in DOMAIN state.incidents : k \notin DOMAIN stateFile.incidents
    /\ \E k \in DOMAIN state.incidents \cap DOMAIN stateFile.incidents :
          state.incidents[k] # stateFile.incidents[k]

\* Object.values(obj) for integer-like keys: ascending key order.
ValuesOf(obj) ==
    LET ids == Ascending({Number(k) : k \in DOMAIN obj})
    IN [n \in DOMAIN ids |-> obj[KeyOf(ids[n])]]

IdsOf(incs) == {incs[i].ObjectId : i \in DOMAIN incs}

\* C15: with A the loaded snapshot and B the poll's snapshot (ids unique in
\* each), the ids new from A to B are the ids cleared from B to A, and the ids
\* cleared from A to B are the ids new from B to A.
C15_DiffDuality ==
    exitCode = 0 =>
        LET A == ValuesOf(state.incidents)
            B == [incidents |-> AssignAll(<<>>, incidents), lastUpdate |-> now]
        IN /\ IdsOf(diffNew(incidents, state)) = IdsOf(diffCleared(A, B))
           /\ IdsOf(diffCleared(incidents, state)) = IdsOf(diffNew(A, B))

\* C15 witness: two consecutive snapshots that share an id and differ by one.
C15_Witness ==
    /\ exitCode = 0
    /\ IdsOf(incidents) \cap previousIdsOf(state) # {}
    /\ IdsOf(incidents) # previousIdsOf(state)

\* The invocations that have hashed a poll.
Hashed == {i \in 1..MaxTicks : calls[i].currentHash # ""}

\* C16: two polls have the same fingerprint exactly when they hold the same
\* set of ids, whatever the arrival order.
C16_FingerprintOfIdSet ==
    \A i, j \in Hashed :
        calls[i].currentHash = calls[j].currentHash
            <=> IdsOf(calls[i].incidents) = IdsOf(calls[j].incidents)

\* C16 witness: two polls with the same ids in different arrival orders, the
\* ids being such that numeric and string order differ, and a third poll with
\* other ids.
C16_Witness ==
    \E i, j, k \in Hashed :
        /\ calls[i].incidents # calls[j].incidents
        /\ IdsOf(calls[i].incidents) = IdsOf(calls[j].incidents)
        /\ IdsOf(calls[k].incidents) # IdsOf(calls[i].incidents)

\* C17: an invocation whose fingerprint equals lastIncidentHash returns at
\* line 112: it asks Discord for nothing (no thread lookup, no edit, no send)
\* and leaves lastIncidentHash, statusMessageId and dispatchThread as they
\* were.
C17_UnchangedPollSkipsPublish ==
    [][ \A i \in 1..MaxTicks :
           (/\ calls[i].pc = "fetch"
            /\ calls'[i].currentHash # ""
            /\ calls'[i].currentHash = lastIncidentHash)
           => /\ calls'[i].pc = "done"
              /\ calls'[i].message = NoMessage
              /\ UNCHANGED <<lastIncidentHash, statusMessageId, dispatchThread,
                             threads, messages, sends>>
      ]_vars

\* C17 witness: an invocation returned with 'No changes' after an earlier one
\* had published the same id set.
C17_Witness ==
    \E i \in 1..MaxTicks :
        /\ calls[i].log = "No changes"
        /\ statusMessageId # NULL
        /\ messages[statusMessageId] = buildStatusMessage(calls[i].incidents)

\* The invocations between their fetch and the end of their publish step.
InCycle == {i \in 1..MaxTicks : calls[i].pc \notin {"idle", "done"}}

\* C18: no invocation of updateDispatch starts while an earlier one is still
\* between its fetch and the end of its publish step.
C18_CyclesNeverOverlap == Cardinality(InCycle) <= 1

\* The violent-crime classifier: the type name contains one of the seven
\* keywords, letter case ignored.
ClassifierKeywords ==
    {"shooting", "stabbing", "assault", "fight", "robbery", "homicide", "carjacking"}

Violent(r) == LikeAny(r.incident_type, ClassifierKeywords)

\* The rows received within the trailing window of a query made now.
InWindow(days) == {r \in store : r.call_received > now - days * HoursPerDay}

\* C19: getDailyStats returns one entry for each local calendar date of the
\* window, most recent first, with the number of that date's records and the
\* number of them the classifier (all seven keywords) calls violent.
C19_DailyStatsCountViolent ==
    dailyStats.kind = "rows" =>
        LET window    == InWindow(dailyStats.days)
            OnDate(d) == {r \in window : date(r.call_received, hostOffset) = d}
            rows      == dailyStats.rows
        IN /\ {rows[n].date : n \in DOMAIN rows}
                 = {date(r.call_received, hostOffset) : r \in window}
           /\ \A m, n \in DOMAIN rows : m < n => rows[m].date > rows[n].date
           /\ \A n \in DOMAIN rows :
                 /\ rows[n].total = Cardinality(OnDate(rows[n].date))
                 /\ rows[n].violent
                       = Cardinality({r \in OnDate(rows[n].date) : Violent(r)})

\* C20: getViolentStreets(days, limit) returns the (street, city) groups of
\* exactly the window's records the classifier (all seven keywords) accepts,
\* each with its number of records, highest count first, at most limit groups.
C20_ViolentStreetsGroups ==
    violentStreets.kind = "rows" =>
        LET accepted == {r \in InWindow(violentStreets.days) : Violent(r)}
            groups   == {[street |-> r.street, city |-> r.city,
                          count  |-> Cardinality({q \in accepted :
                                         q.street = r.street /\ q.city = r.city})]
                            : r \in accepted}
            rows     == violentStreets.rows
        IN /\ Range(rows) \subseteq groups
           /\ \A m, n \in DOMAIN rows : m # n => rows[m] # rows[n]
           /\ Len(rows) = IF Cardinality(groups) < violentStreets.limit
                          THEN Cardinality(groups) ELSE violentStreets.limit
           /\ \A m, n \in DOMAIN rows : m < n => rows[m].count >= rows[n].count
           /\ \A g \in groups \ Range(rows) :
                 \A n \in DOMAIN rows : rows[n].count >= g.count

\* The record of the last poll that carries an id.
IncidentOf(id) == CHOOSE inc \in Range(incidents) : inc.ObjectId = id

\* header.length + footer.length of a status of `total` incidents printed at
\* time t.
FrameLength(total, t) ==
    HeaderFixedLength + DigitCount(total) + (IF total # 1 THEN 1 ELSE 0)
        + FooterFixedLength + timestampLength(t)

\* C25: the kept lines are a prefix of the incidents ordered newest first: the
\* kept lines go from newer to older, every kept incident is at least as new
\* as every omitted one, and when a line is omitted the newest omitted line
\* is one that did not fit after the kept ones.
C25_KeptIsNewestPrefix ==
    stdout.kind = "status" =>
        LET kept    == stdout.kept
            omitted == {inc \in Range(incidents) : inc.ObjectId \notin Range(kept)}
            used    == FrameLength(Len(incidents), now)
                         + SumOf([i \in DOMAIN kept |->
                                     formatIncidentShort(IncidentOf(kept[i])) + 1])
        IN /\ Range(kept) \subseteq IdsOf(incidents)
           /\ \A i, j \in DOMAIN kept : i < j =>
                 /\ kept[i] # kept[j]
                 /\ IncidentOf(kept[i]).CallReceivedTime
                        >= IncidentOf(kept[j]).CallReceivedTime
           /\ \A i \in DOMAIN kept : \A o \in omitted :
                 IncidentOf(kept[i]).CallReceivedTime >= o.CallReceivedTime
           /\ omitted # {} =>
                 \E o \in omitted :
                    /\ \A p \in omitted : o.CallReceivedTime >= p.CallReceivedTime
                    /\ used + (formatIncidentShort(o) + 1) + MarkerReserve
                           >= DISCORD_LIMIT

\* C25 witness: the feed's first record is not the newest, and the status
\* keeps some lines and omits others, an older line that would fit among them.
C25_Witness ==
    /\ stdout.kind = "status"
    /\ stdout.kept # <<>>
    /\ stdout.kept[1] # incidents[1].ObjectId
    /\ \E inc \in Range(incidents) :
          /\ inc.ObjectId \notin Range(stdout.kept)
          /\ Len(inc.Location) = 10

\* C29: after a poll cycle that completed without a store error, every row
\* with cleared = 0 is an occurrence (id, receivedAt) of that poll's snapshot.
C29_ActiveRowsInSnapshot ==
    (exitCode = 0 /\ dbError = NoError) =>
        \A r \in store :
            ~r.cleared =>
                \E inc \in Range(incidents) :
                    /\ inc.ObjectId = r.object_id
                    /\ inc.CallReceivedTime = r.call_received

\* The active rows of the occurrences that left the feed in the last run,
\* when a store write of that run failed.
Stranded ==
    IF exitCode = 0 /\ dbError = WriteFailed
    THEN {r \in store : /\ ~r.cleared
                        /\ \E p \in Departed : /\ p.ObjectId = r.object_id
                                               /\ p.CallReceivedTime = r.call_received}
    ELSE {}

\* C30: an occurrence that left the feed in a cycle whose store write failed
\* is marked cleared by the next cycle that completes without a store error
\* (the occurrence still absent from the feed).
C30_ClearedOnceWritesSucceed ==
    [][\A r \in Stranded :
          (/\ exitCode' = 0
           /\ dbError' = NoError
           /\ \A i \in DOMAIN incidents' : incidents'[i].ObjectId # r.object_id)
             => \E q \in store' : SameKey(q, r) /\ q.cleared]_vars

\* The record with an id among the records built into the status message.
BuiltIncident(id) == CHOOSE inc \in Range(calls[1].incidents) : inc.ObjectId = id

\* C28: buildStatusMessage shows the min(total, 20) most recently received
\* incidents, newest first, and carries '...and N more' exactly when there are
\* more than 20 incidents, with N = total - 20; without incidents it is the
\* 'No active incidents' text.
C28_StatusShowsNewestTwenty ==
    LET incs    == calls[1].incidents
        message == calls[1].message
    IN message # NoMessage =>
          IF incs = <<>> THEN message.kind = "No active incidents"
          ELSE LET shown   == message.shown
                   omitted == {inc \in Range(incs) : inc.ObjectId \notin Range(shown)}
               IN /\ message.kind = "status"
                  /\ Len(shown) <= 20
                  /\ Len(shown) = (IF Len(incs) < 20 THEN Len(incs) ELSE 20)
                  /\ Range(shown) \subseteq IdsOf(incs)
                  /\ \A i, j \in DOMAIN shown : i < j =>
                        /\ shown[i] # shown[j]
                        /\ BuiltIncident(shown[i]).CallReceivedTime
                               >= BuiltIncident(shown[j]).CallReceivedTime
                  /\ \A i \in DOMAIN shown : \A o \in omitted :
                        BuiltIncident(shown[i]).CallReceivedTime >= o.CallReceivedTime
                  /\ message.marker # NoMarker <=> Len(incs) > 20
                  /\ Len(incs) > 20 => message.marker = Len(incs) - 20

\* C28 witness: a poll of more than 20 incidents whose last record in feed
\* order is the newest: it is shown first, and one of the block is counted in
\* the marker.
C28_Witness ==
    LET incs    == calls[1].incidents
        message == calls[1].message
    IN /\ message # NoMessage
       /\ Len(incs) > 20
       /\ message.marker >= 1
       /\ message.shown[1] = incs[Len(incs)].ObjectId
       /\ 1001 \notin Range(message.shown)

\* The records received within the trailing window of `hours` hours.
InHours(hours) == {r \in store : r.call_received > now - hours}

\* C21: getTypeStats lists types of the window, each once, with the number of
\* its records in the window and the average of clearedAt - receivedAt over
\* its cleared records (none: no average); the list is in descending order of
\* count and holds the 20 types of highest count, or all when fewer.
C21_TypeStatsCountAndAverage ==
    typeStats.kind = "rows" =>
        LET window == InHours(typeStats.hours)
            types  == {r.incident_type : r \in window}
            Of(ty) == {r \in window : r.incident_type = ty}
            Done(ty) == {r \in Of(ty) : r.cleared}
            rows   == typeStats.rows
            listed == {rows[n].incident_type : n \in DOMAIN rows}
        IN /\ listed \subseteq types
           /\ Len(rows) = (IF Cardinality(types) < 20 THEN Cardinality(types) ELSE 20)
           /\ \A m, n \in DOMAIN rows :
                 m < n => /\ rows[m].incident_type # rows[n].incident_type
                          /\ rows[m].count >= rows[n].count
           /\ \A n \in DOMAIN rows :
                 LET ty == rows[n].incident_type
                 IN /\ rows[n].count = Cardinality(Of(ty))
                    /\ rows[n].avg_duration_min.n = Cardinality(Done(ty))
                    /\ \E order \in [1..Cardinality(Done(ty)) -> Done(ty)] :
                          /\ \A i, j \in DOMAIN order : i # j => order[i] # order[j]
                          /\ rows[n].avg_duration_min.sum =
                                SumOf([i \in DOMAIN order |->
                                          (order[i].cleared_at - order[i].call_received)
                                              * 60])
           /\ \A ty \in types \ listed :
                 \A n \in DOMAIN rows : rows[n].count >= Cardinality(Of(ty))

\* C21 witness: more than 20 types in the window, one of them left out, and a
\* listed type with an active and a cleared record, its average taken over
\* the cleared one.
C21_Witness ==
    /\ typeStats.kind = "rows"
    /\ Len(typeStats.rows) = 20
    /\ \E r \in InHours(typeStats.hours) :
          \A n \in DOMAIN typeStats.rows :
              typeStats.rows[n].incident_type # r.incident_type
    /\ \E n \in DOMAIN typeStats.rows :
          /\ typeStats.rows[n].count = 2
          /\ typeStats.rows[n].avg_duration_min.n = 1

\* C22: a report over a window without records shows a defined placeholder
\* for the violent-crime count and for its percentage.
C22_EmptyWindowPlaceholder ==
    (report.kind = "report" /\ report.total = 0) =>
        /\ report.violent # NULL
        /\ report.percent.kind # "NaN"

\* C23: no two rows of the reports archive have the same week_start, and the
\* row of the last report's period is the one that report wrote.
C23_OneRowPerPeriod ==
    /\ \A r, q \in reports : r.week_start = q.week_start => r = q
    /\ report.kind = "report" =>
          \E r \in reports : /\ r.week_start = report.weekStart
                             /\ r.report_text = report
                             /\ r.created_at = now

\* C23 witness: two reports for one period have been generated; the archive
\* holds one row, written by the second.
C23_Witness ==
    /\ cycles = 2
    /\ Cardinality(reports) = 1
    /\ \E r \in reports : r.created_at = QueryTime + 2 /\ r.report_text = report

\* The records of the window of the last report: since is the instant whose
\* Chicago date is weekStart, days * 24 hours before the report was generated.
ReportWindow ==
    {r \in store : \E days \in {1, 7} :
        /\ toLocaleDateString(report.generated - days * HoursPerDay) = report.weekStart
        /\ r.call_received > report.generated - days * HoursPerDay}

\* C27: the listed top types hold no storm type; they are the 5 non-storm
\* types of highest count in the window (all of them when fewer), in
\* descending order of count; storm records appear only in the Storm/Weather
\* count, which counts no record twice and all of them when the window has
\* at most 10 types.
C27_StormTypesAggregated ==
    report.kind = "report" =>
        LET Storm    == {"WIRES DOWN", "TREE DOWN", "SAFETY HAZARD-BOTH TREES AND WIRES"}
            window   == ReportWindow
            types    == {r.incident_type : r \in window}
            Count(ty) == Cardinality({r \in window : r.incident_type = ty})
            nonStorm == types \ Storm
            stormRecords == {r \in window : r.incident_type \in Storm}
            listed   == {report.types[n].incident_type : n \in DOMAIN report.types}
        IN /\ listed \cap Storm = {}
           /\ listed \subseteq nonStorm
           /\ Len(report.types) =
                 (IF Cardinality(nonStorm) < 5 THEN Cardinality(nonStorm) ELSE 5)
           /\ \A n \in DOMAIN report.types :
                 report.types[n].count = Count(report.types[n].incident_type)
           /\ \A m, n \in DOMAIN report.types :
                 m < n => /\ report.types[m].incident_type # report.types[n].incident_type
                          /\ report.types[m].count >= report.types[n].count
           /\ \A ty \in nonStorm \ listed :
                 \A n \in DOMAIN report.types : report.types[n].count >= Count(ty)
           /\ report.storm <= Cardinality(stormRecords)
           /\ Cardinality(types) <= 10 => report.storm = Cardinality(stormRecords)

\* C27 witness: a window of more than 5 non-storm types in which a storm type
\* has records: 5 types are listed and the storm records are counted apart.
C27_Witness ==
    /\ report.kind = "report"
    /\ Len(report.types) = 5
    /\ report.storm > 0
    /\ \E r \in ReportWindow : r.incident_type = "FIGHT/ASSAULT"

\* The first member of an intersection 'A / B', or the whole location.
FirstMember(location) ==
    IF INSTR(location, " / ") # 0
    THEN SubSeq(location, 1, INSTR(location, " / ") - 1)
    ELSE location

\* A text without its first token when that token is a number.
WithoutHouseNumber(text) ==
    LET end   == INSTR(text \o " ", " ")
        token == SubSeq(text, 1, end - 1)
    IN IF token # "" /\ \A i \in 1..Len(token) : SubSeq(token, i, i) \in Digit
       THEN trim(SubSeq(text, end + 1, Len(text)))
       ELSE text

\* C24: the street stored for a recorded incident is its location's first
\* intersection member without a leading house-number token; null for a null
\* location.
C24_StreetFromLocation ==
    \A n \in DOMAIN incidents :
        \A r \in RowsOfIncident(store, incidents[n]) :
            r.street = (IF incidents[n].Location = NullText THEN NullText
                        ELSE WithoutHouseNumber(FirstMember(incidents[n].Location)))

\* C26: the hour column of every row, written by recordIncident or by the
\* backfill, and the date getDailyStats gives the row on this host, are the
\* hour and the date of receivedAt in the one fixed zone, America/Chicago.
C26_OneCivilZone ==
    dbLoaded =>
        \A r \in store :
            /\ r.hour = (r.call_received + ChicagoOffset) % 24
            /\ date(r.call_received, hostOffset)
                   = (r.call_received + ChicagoOffset) \div 24


\* The ids a status text shows.
ShownIds(m) == IF m.kind = "status" THEN Range(m.shown) ELSE {}

\* The status message in the thread shows the id set of the poll incs.
StatusShows(incs) ==
    /\ statusMessageId \in DOMAIN messages
    /\ ShownIds(messages[statusMessageId]) = IdsOf(incs)

\* C31: a poll whose id set the status message does not show leads to an
\* update of the message, also when the publish step of the cycle that first
\* saw the set failed.  As a step: with no other invocation in flight, an
\* invocation does not return with 'No changes' on a poll whose id set the
\* status message does not show (the skip leaves every variable of the bot as
\* it was, so every later poll with that id set is skipped as well).
C31_UnpublishedPollRetried ==
    [][ \A i \in 1..MaxTicks :
           (/\ calls[i].pc = "fetch"
            /\ calls'[i].log = "No changes"
            /\ \A j \in 1..MaxTicks \ {i} : calls[j].pc \in {"idle", "done"})
           => StatusShows(calls'[i].incidents)
      ]_vars

\* ------------------------------------- the bot while its message is kept
\* The bot in a thread where nobody deletes the status message: fetching and
\* editing the message the bot holds the id of succeed, so the catch at line
\* 129 never forgets an id (line 131).
StatusMessageKept == statusMessageId # NULL => statusMessageId' = statusMessageId

KeptNext ==
    \/ Tick
    \/ \E i \in 1..MaxTicks :
          \/ FetchSettled(i)
          \/ ChannelFetched(i)
          \/ ThreadsFetched(i)
          \/ ThreadCreated(i)
          \/ MessageFetched(i) /\ StatusMessageKept
          \/ MessageEdited(i) /\ StatusMessageKept
          \/ MessageSent(i)

KeptSpec == BotInit /\ [][KeptNext]_vars

\* C32: whatever the interleaving of the invocations the timer starts, at
\* most one dispatch thread is created, and while no status message is
\* deleted at most one status message is ever sent.
C32_OneThreadOneMessage ==
    /\ Cardinality(threads) <= 1
    /\ sends <= 1
====
